---- MODULE Spec2Model ----
(***************************************************************************)
(* cursor-tab.nvim: the local suggestion server (cmd/server/main.go, the   *)
(* streaming version with handleNewSuggestion / parseNextSuggestion /      *)
(* storeRemainingSuggestions / handleGetSuggestion) and its suggestion     *)
(* store (internal/suggestionstore).                                       *)
(*                                                                         *)
(* Optional values (Go nil pointers, unset protobuf optionals) are         *)
(* sequences of length 0 or 1.  Texts are sequences of one-character       *)
(* strings.  Suggestion identifiers are positive integers, the empty       *)
(* identifier is NoId.                                                     *)
(***************************************************************************)
EXTENDS Integers, Sequences, FiniteSets, TLC

VARIABLES
    stream,              \* per request: the chunks the upstream will send
    tail,                \* per request: how the transport ends after them
    pos,                 \* per request: chunks received so far
    sstate,              \* per request: "open", or how Receive failed
    cancelled,           \* per request: r.Context() is done
    hpc,                 \* handleNewSuggestion: position in the handler
    hcur,                \* handler's parseNextSuggestion: currentSuggestion
    hout,                \* handler's parseNextSuggestion: how it returned
    firstSuggestion,     \* handler local
    nextSuggestionID,    \* handler local
    hasMoreSuggestions,  \* handler local
    response,            \* the payload written for the request, if any
    hexit,               \* which return of handleNewSuggestion was taken
    bpc,                 \* storeRemainingSuggestions: position
    bcur,                \* background parseNextSuggestion: currentSuggestion
    bout,                \* background parseNextSuggestion: how it last returned
    suggestion,          \* background local
    currentID,           \* background local
    bnext,               \* background local nextSuggestionID
    count,               \* background local
    bexit,               \* which return of storeRemainingSuggestions was taken
    store,               \* suggestionstore.Store.suggestions
    idCounter,           \* identifiers generated so far
    running,             \* the server process is up
    cursorClient,        \* the upstream client was created at startup (FALSE: nil)
    fpc, fid, fsug,      \* handleGetSuggestion: position, requested id, Get result
    fresp,               \* handleGetSuggestion: last payload written by the call slot
    known,               \* identifiers revealed to the editor in a payload
    delivered,           \* per identifier: the fetch calls that returned its suggestion
    puts,                \* per request: the store.Store calls of its background task
    putsAfterCancel,     \* per request: store.Store calls made once ctx was done
    upstreamCalls,       \* per request: StreamCpp calls issued for it
    calls,               \* the Store and Delete calls a direct caller of the store made
    ret,                 \* what that caller's last Get or Keys call returned
    M,                   \* the editor plugin's module table (lua/cursor-tab.lua)
    buffer,              \* editor: what was put in the buffer, in order
    cursor,              \* editor: the cursor position
    autocmdDue,          \* editor: a TextChangedI event is about to be delivered
    scheduled,           \* editor: the vim.schedule / vim.defer_fn closure pending
    jobs                 \* editor: the curl jobs alive

svars == <<stream, tail, pos, sstate, cancelled>>
hvars == <<hpc, hcur, hout, firstSuggestion, nextSuggestionID, hasMoreSuggestions, response,
           hexit>>
bvars == <<bpc, bcur, bout, suggestion, currentID, bnext, count, bexit>>
fvars == <<fpc, fid, fsug, fresp>>
gvars == <<known, delivered, puts, putsAfterCancel, upstreamCalls>>
tvars == <<calls, ret>>
srvvars == <<svars, hvars, bvars, fvars, gvars, store, idCounter, running, cursorClient,
             tvars>>
evars == <<M, buffer, cursor, autocmdDue, scheduled, jobs>>
vars == <<srvvars, evars>>

----------------------------------------------------------------------------
(* Bounds of the model *)

MaxUnits == 3
MaxKeys == 2
MaxJobs == 2

Reqs == {1, 2}
Fetchers == {1, 2}
NextIds == {1, 2}

NoId == 0
NL == "\n"

----------------------------------------------------------------------------
(* Data *)

EmptySuggestion ==
    [text |-> <<>>, range |-> <<>>, binding |-> "", eol |-> FALSE, next |-> NoId]

EmptyChunk ==
    [begin |-> FALSE, doneEdit |-> FALSE, doneStream |-> FALSE,
     text |-> <<>>, range |-> <<>>, binding |-> <<>>, eol |-> <<>>]

BeginEdit == [EmptyChunk EXCEPT !.begin = TRUE]
DoneEdit == [EmptyChunk EXCEPT !.doneEdit = TRUE]
DoneStream == [EmptyChunk EXCEPT !.doneStream = TRUE]
Text(t) == [EmptyChunk EXCEPT !.text = t]
Range(s, e, b, f) == [EmptyChunk EXCEPT !.range = <<s, e>>, !.binding = b, !.eol = f]

----------------------------------------------------------------------------
(* The upstream streams fed to the server.  A well-formed stream is N edit *)
(* units (zero or more range/text chunks, then a done-edit marker)         *)
(* separated by begin-markers and ended by a done-stream marker.           *)

Letter(i) == CASE i = 1 -> "a" [] i = 2 -> "b" [] i = 3 -> "c" [] i = 4 -> "d" [] OTHER -> "e"

Kinds == {"plain", "frag", "eol", "eol2", "noeol", "empty", "inline", "bindtext", "rangeonly"}

\* The chunks of edit unit i, of kind k (without the separating begin-marker).
UnitChunks(i, k) ==
    CASE k = "plain" -> <<Text(<<Letter(i)>>), DoneEdit>>
      [] k = "frag" -> <<Text(<<Letter(i)>>), Text(<<"x", "y">>), DoneEdit>>
      [] k = "eol" -> <<Range(i, i, <<"bind">>, <<TRUE>>), Text(<<NL, Letter(i)>>), DoneEdit>>
      [] k = "eol2" -> <<Range(i, i, <<"bind">>, <<TRUE>>), Text(<<NL, NL, Letter(i)>>), DoneEdit>>
      [] k = "noeol" -> <<Range(i, i + 1, <<>>, <<TRUE>>), Text(<<Letter(i), NL>>), DoneEdit>>
      [] k = "empty" -> <<DoneEdit>>
      [] k = "bindtext" -> <<[Text(<<Letter(i)>>) EXCEPT !.binding = <<"bind">>], DoneEdit>>
      [] k = "inline" -> <<[Text(<<NL, Letter(i)>>) EXCEPT !.doneEdit = TRUE]>>
      [] OTHER -> <<Range(i, i, <<"bind">>, <<>>), DoneEdit>>

\* The kind of unit i in the stream of n units whose unit j has kind k.
KindAt(i, j, k) == IF i = j THEN k ELSE "plain"

RECURSIVE UnitsFrom(_, _, _, _)
UnitsFrom(i, n, j, k) ==
    IF i > n THEN <<DoneStream>>
    ELSE (IF i > 1 THEN <<BeginEdit>> ELSE <<>>)
         \o UnitChunks(i, KindAt(i, j, k)) \o UnitsFrom(i + 1, n, j, k)

WellFormedStream(n, j, k) == UnitsFrom(1, n, j, k)

WellFormed ==
    {<<DoneStream>>} \cup
    {WellFormedStream(n, j, k) : n \in 1..MaxUnits, j \in 1..MaxUnits, k \in Kinds}

\* Streams the transport cuts before the done-stream marker.
Truncated ==
    LET full == WellFormedStream(MaxUnits, 1, "plain")
    IN  {SubSeq(full, 1, m) : m \in 0..(Len(full) - 1)}

\* Streams the service closes inside an edit unit: the done-stream marker
\* arrives before the unit's done-edit marker.
Unfinished ==
    {<<Text(<<"a">>), DoneStream>>,
     <<[Text(<<"a">>) EXCEPT !.doneStream = TRUE]>>,
     <<Text(<<"a">>), DoneEdit, BeginEdit, Range(2, 2, <<"bind">>, <<>>), Text(<<"b">>),
       DoneStream>>}

\* A stream whose edit units each carry two range chunks.
Reranged ==
    {<<Range(1, 1, <<"bind">>, <<>>), Range(2, 3, <<>>, <<>>), Text(<<"a">>), DoneEdit,
       BeginEdit,
       Range(4, 4, <<>>, <<>>), Text(<<"b">>), Range(5, 6, <<>>, <<>>), DoneEdit,
       DoneStream>>}

\* Streams with a chunk that carries the done-edit and the done-stream
\* marker together: with the unit's only text, after the text, and alone.
BothMarkers ==
    {<<[Text(<<"a">>) EXCEPT !.doneEdit = TRUE, !.doneStream = TRUE]>>,
     <<Text(<<"a">>), [DoneEdit EXCEPT !.doneStream = TRUE]>>,
     <<Text(<<"a">>), DoneEdit, BeginEdit,
       [Text(<<"b">>) EXCEPT !.doneEdit = TRUE, !.doneStream = TRUE]>>,
     <<[DoneEdit EXCEPT !.doneStream = TRUE]>>}

\* Streams whose chunk after a done-edit marker is unusual: begin-markers
\* that carry a range, a binding id, the flag and text, and a text chunk
\* where a begin-marker or the done-stream marker is due, after the first
\* and after the second suggestion.
LoadedBegin ==
    [BeginEdit EXCEPT !.text = <<NL, "z">>, !.range = <<7, 7>>, !.binding = <<"q">>,
                      !.eol = <<TRUE>>]

OddPeek ==
    {<<Text(<<"a">>), DoneEdit, LoadedBegin, Text(<<NL, "b">>), DoneEdit,
       LoadedBegin, Text(<<"c">>), DoneEdit, DoneStream>>,
     <<Text(<<"a">>), DoneEdit, Text(<<"x">>), DoneEdit, DoneStream>>,
     <<Text(<<"a">>), DoneEdit, BeginEdit, Text(<<"b">>), DoneEdit, Text(<<"x">>), DoneEdit,
       DoneStream>>}

Inputs ==
    {[chunks |-> s, tail |-> "eof"] : s \in WellFormed}
    \cup {[chunks |-> s, tail |-> t] : s \in Truncated, t \in {"eof", "err"}}
    \cup {[chunks |-> s, tail |-> "eof"] :
               s \in Unfinished \cup Reranged \cup BothMarkers \cup OddPeek}

\* The streams of the two-request runs.
PairInputs ==
    {[chunks |-> s, tail |-> "eof"] :
        s \in {<<DoneStream>>, WellFormedStream(1, 1, "plain"), WellFormedStream(2, 1, "plain"),
               WellFormedStream(2, 2, "empty")}}
    \cup {[chunks |-> <<Text(<<"a">>), DoneEdit, BeginEdit>>, tail |-> "err"]}

\* Ghost reading of a stream: the number of done-edit markers it carries.
RECURSIVE DoneEdits(_)
DoneEdits(s) ==
    IF s = <<>> THEN 0
    ELSE (IF Head(s).doneEdit THEN 1 ELSE 0) + DoneEdits(Tail(s))

----------------------------------------------------------------------------
(* suggestionstore.Store: the map behind the lock.  Each method holds the  *)
(* lock for its whole body, so each is one atomic step.                    *)

StoreStore_Aliased(m, id, s) == [k \in (DOMAIN m) \cup {id} |-> s]
StoreStore(m, id, s) == [k \in (DOMAIN m) \cup {id} |-> IF k = id THEN s ELSE m[k]]
StoreGet(m, id) == IF id \in DOMAIN m THEN <<m[id]>> ELSE <<>>
StoreDelete_Keeps(m, id) == m
StoreDelete_Clears(m, id) == <<>>
StoreDelete(m, id) == [k \in (DOMAIN m) \ {id} |-> m[k]]
StoreKeys(m) == DOMAIN m

----------------------------------------------------------------------------
(* parseNextSuggestion, one received chunk at a time *)

\* The range assignment keeping the first range of the edit unit.
ApplyRange_KeepsFirst(cur, c) ==
    IF c.range = <<>> THEN cur
    ELSE LET base == IF cur = <<>> THEN EmptySuggestion ELSE cur[1]
         IN  <<[base EXCEPT
                  !.range = IF @ = <<>> THEN <<c.range[1], 0, c.range[2], -1>> ELSE @,
                  !.binding = IF c.binding # <<>> THEN c.binding[1] ELSE @,
                  !.eol = IF c.eol # <<>> THEN c.eol[1] ELSE @]>>

ApplyRange(cur, c) ==
    IF c.range = <<>> THEN cur
    ELSE LET base == IF cur = <<>> THEN EmptySuggestion ELSE cur[1]
         IN  <<[base EXCEPT
                  !.range = <<c.range[1], 0, c.range[2], -1>>,
                  !.binding = IF c.binding # <<>> THEN c.binding[1] ELSE @,
                  !.eol = IF c.eol # <<>> THEN c.eol[1] ELSE @]>>

ApplyText(cur, c) ==
    IF c.text = <<>> THEN cur
    ELSE LET base == IF cur = <<>> THEN EmptySuggestion ELSE cur[1]
         IN  <<[base EXCEPT !.text = @ \o c.text]>>

StripLeadingEol_IgnoresFlag(s) ==
    IF Len(s.text) > 0 /\ s.text[1] = NL
    THEN [s EXCEPT !.text = Tail(@)]
    ELSE s

StripLeadingEol(s) ==
    IF s.eol /\ Len(s.text) > 0 /\ s.text[1] = NL
    THEN [s EXCEPT !.text = Tail(@)]
    ELSE s

\* The receive loop with the two completion markers taken for one another.
ParseChunk_MarkersConflated(cur, c) ==
    LET c1 == ApplyText(ApplyRange(cur, c), c)
    IN  IF c.doneEdit \/ c.doneStream
        THEN IF c1 = <<>>
             THEN [kind |-> "panic", cur |-> <<>>, via |-> "doneEdit"]
             ELSE [kind |-> "suggestion", cur |-> <<StripLeadingEol(c1[1])>>, via |-> "doneEdit"]
        ELSE [kind |-> "more", cur |-> c1, via |-> "none"]

\* The receive loop returning what it has accumulated at a done-stream
\* marker.
ParseChunk_KeepsPartial(cur, c) ==
    LET c1 == ApplyText(ApplyRange(cur, c), c)
    IN  IF c.doneEdit
        THEN IF c1 = <<>>
             THEN [kind |-> "panic", cur |-> <<>>, via |-> "doneEdit"]
             ELSE [kind |-> "suggestion", cur |-> <<StripLeadingEol(c1[1])>>, via |-> "doneEdit"]
        ELSE IF c.doneStream
             THEN [kind |-> IF c1 = <<>> THEN "nil" ELSE "suggestion", cur |-> c1,
                   via |-> "doneStream"]
             ELSE [kind |-> "more", cur |-> c1, via |-> "none"]

\* The body of the receive loop for chunk c.  A done-edit marker with no
\* current suggestion dereferences the nil pointer in the log call.
ParseChunk(cur, c) ==
    LET c1 == ApplyText(ApplyRange(cur, c), c)
    IN  IF c.doneEdit
        THEN IF c1 = <<>>
             THEN [kind |-> "panic", cur |-> <<>>, via |-> "doneEdit"]
             ELSE [kind |-> "suggestion", cur |-> <<StripLeadingEol(c1[1])>>, via |-> "doneEdit"]
        ELSE IF c.doneStream
             THEN [kind |-> "nil", cur |-> <<>>, via |-> "doneStream"]
             ELSE [kind |-> "more", cur |-> c1, via |-> "none"]

\* After the loop: Receive returned false with the transport in state st.
ParseClosed(cur, st) ==
    IF st = "err"
    THEN [kind |-> "error", cur |-> <<>>, via |-> "closed"]
    ELSE [kind |-> IF cur = <<>> THEN "nil" ELSE "suggestion", cur |-> cur, via |-> "closed"]

\* stream.Receive(): the outcomes it can have for request r.  A stream whose
\* context is done may still deliver a buffered chunk or fail.
Receive(r) ==
    IF sstate[r] # "open"
    THEN {[ok |-> FALSE, msg |-> EmptyChunk, pos |-> pos[r], st |-> sstate[r]]}
    ELSE (IF pos[r] < Len(stream[r])
          THEN {[ok |-> TRUE, msg |-> stream[r][pos[r] + 1], pos |-> pos[r] + 1, st |-> "open"]}
          ELSE {[ok |-> FALSE, msg |-> EmptyChunk, pos |-> pos[r], st |-> tail[r]]})
         \cup (IF cancelled[r]
               THEN {[ok |-> FALSE, msg |-> EmptyChunk, pos |-> pos[r], st |-> "err"]}
               ELSE {})

ParseStep(cur, o) == IF o.ok THEN ParseChunk(cur, o.msg) ELSE ParseClosed(cur, o.st)

\* The peek after a suggestion: a received chunk that is a begin-marker
\* announces another suggestion.
MoreComing_Any(o) == o.ok
MoreComing(o) == o.ok /\ o.msg.begin

\* generateSuggestionID: "sugg_" and a random UUID, taken to be an
\* identifier no earlier call returned.
GenerateSuggestionID_Constant(n) == 1
GenerateSuggestionID(n) == n + 1

----------------------------------------------------------------------------
(* The editor plugin, lua/cursor-tab.lua.  M is the module table; a nil    *)
(* field is the empty sequence or NoId, an extmark or timer handle is a    *)
(* boolean (set or not).  Suggestion texts are the token "s"; the cursor   *)
(* is <<line, column>>.                                                    *)

EditorM ==
    [enabled |-> TRUE, accepting |-> FALSE, current_suggestion |-> FALSE,
     current_suggestion_text |-> <<>>, next_suggestion_id |-> NoId,
     debounce_timer |-> FALSE, pending_job |-> <<>>]

EditorInit ==
    /\ M = EditorM
    /\ buffer = <<>>
    /\ cursor = <<0, 0>>
    /\ autocmdDue = FALSE
    /\ scheduled = <<>>
    /\ jobs = {}

\* M.clear_suggestion
clear_suggestion(m) ==
    IF m.current_suggestion
    THEN [m EXCEPT !.current_suggestion = FALSE, !.current_suggestion_text = <<>>,
                   !.next_suggestion_id = NoId]
    ELSE m

\* The handle jobstart gives a new job.
NewHandle == CHOOSE h \in 1..(Cardinality(jobs) + 1) : \A j \in jobs : j.h # h

\* M.get_suggestion(suggestion_id, callback) with the server available:
\* the pending job is stopped and a new one is started.  id = NoId is the
\* POST of a new request, made with the cursor at position at; the chained
\* fetch captures no position.
get_suggestion_jobs(m, id, at) ==
    {IF m.pending_job # <<>> /\ j.h = m.pending_job[1] THEN [j EXCEPT !.stopped = TRUE] ELSE j :
        j \in jobs}
    \cup {[h |-> NewHandle, kind |-> IF id = NoId THEN "new" ELSE "get", id |-> id,
           at |-> IF id = NoId THEN at ELSE <<0, 0>>, stopped |-> FALSE]}

get_suggestion(m) == [m EXCEPT !.pending_job = <<NewHandle>>]

\* The suggestion text of a payload, told apart by the next_suggestion_id
\* the same payload carries.
SuggestionText(next) ==
    CASE next = NoId -> <<"s">>
      [] next = 1 -> <<"s1">>
      [] OTHER -> <<"s2">>

\* The callback of the chained fetch (show_suggestion with an identifier)
\* for a payload with a suggestion; display says what became of the extmark.
show_chained_callback(m, next, display) ==
    LET m1 == [m EXCEPT !.current_suggestion_text = SuggestionText(next), !.next_suggestion_id = next]
    IN  CASE display = "outOfRange" -> m1
          [] display = "blank" -> [m1 EXCEPT !.accepting = FALSE]
          [] OTHER -> [m1 EXCEPT !.current_suggestion = TRUE, !.accepting = FALSE]

\* The callback of a new request for a payload with a suggestion; at is the
\* cursor position captured when the debounce timer fired.
show_new_callback_ColumnOnly(m, at, next, display) ==
    IF cursor[2] # at[2] THEN m
    ELSE LET m1 == [clear_suggestion(m) EXCEPT !.current_suggestion_text = SuggestionText(next),
                                               !.next_suggestion_id = next]
         IN  IF display = "shown" THEN [m1 EXCEPT !.current_suggestion = TRUE] ELSE m1

show_new_callback(m, at, next, display) ==
    IF cursor[1] # at[1] \/ cursor[2] # at[2] THEN m
    ELSE LET m1 == [clear_suggestion(m) EXCEPT !.current_suggestion_text = SuggestionText(next),
                                               !.next_suggestion_id = next]
         IN  IF display = "shown" THEN [m1 EXCEPT !.current_suggestion = TRUE] ELSE m1

----------------------------------------------------------------------------
(* Initial state: the server is up, the store is empty, each request slot  *)
(* has its upstream stream fixed.                                          *)

InitWith(active, inputs) ==
    /\ \E inp \in [Reqs -> inputs \cup {[chunks |-> <<DoneStream>>, tail |-> "eof"]}] :
          /\ \A r \in Reqs \ active : inp[r] = [chunks |-> <<DoneStream>>, tail |-> "eof"]
          /\ stream = [r \in Reqs |-> inp[r].chunks]
          /\ tail = [r \in Reqs |-> inp[r].tail]
    /\ pos = [r \in Reqs |-> 0]
    /\ sstate = [r \in Reqs |-> "open"]
    /\ cancelled = [r \in Reqs |-> FALSE]
    /\ hpc = [r \in Reqs |-> IF r \in active THEN "idle" ELSE "off"]
    /\ hcur = [r \in Reqs |-> <<>>]
    /\ hout = [r \in Reqs |-> [kind |-> "more", via |-> "none"]]
    /\ firstSuggestion = [r \in Reqs |-> <<>>]
    /\ nextSuggestionID = [r \in Reqs |-> NoId]
    /\ hasMoreSuggestions = [r \in Reqs |-> FALSE]
    /\ response = [r \in Reqs |-> <<>>]
    /\ hexit = [r \in Reqs |-> "none"]
    /\ bpc = [r \in Reqs |-> "none"]
    /\ bcur = [r \in Reqs |-> <<>>]
    /\ bout = [r \in Reqs |-> [kind |-> "more", via |-> "none"]]
    /\ suggestion = [r \in Reqs |-> <<>>]
    /\ currentID = [r \in Reqs |-> NoId]
    /\ bnext = [r \in Reqs |-> NoId]
    /\ count = [r \in Reqs |-> 0]
    /\ bexit = [r \in Reqs |-> "none"]
    /\ store = <<>>
    /\ idCounter = 0
    /\ fpc = [f \in Fetchers |-> "idle"]
    /\ fid = [f \in Fetchers |-> NoId]
    /\ fsug = [f \in Fetchers |-> <<>>]
    /\ fresp = [f \in Fetchers |-> <<>>]
    /\ known = {}
    /\ delivered = <<>>
    /\ puts = [r \in Reqs |-> <<>>]
    /\ putsAfterCancel = [r \in Reqs |-> 0]
    /\ upstreamCalls = [r \in Reqs |-> 0]
    /\ running = TRUE
    /\ cursorClient \in BOOLEAN
    /\ calls = <<>>
    /\ ret = <<>>
    /\ EditorInit

Init == InitWith({1}, Inputs)

\* Two requests in flight at once, over a few short streams.
InitPair == InitWith(Reqs, PairInputs)

----------------------------------------------------------------------------
(* SuggestionResponse payloads *)

ErrorResponse_ErrorUnset(msg) ==
    [error |-> "", suggestion |-> <<>>, range |-> <<>>, binding |-> "",
     eol |-> FALSE, next |-> NoId]

ErrorResponse(msg) ==
    [error |-> msg, suggestion |-> <<>>, range |-> <<>>, binding |-> "",
     eol |-> FALSE, next |-> NoId]

SuggestionResponse_DropsNext(s, next) ==
    [error |-> "", suggestion |-> s.text, range |-> s.range, binding |-> s.binding,
     eol |-> s.eol, next |-> NoId]

SuggestionResponse(s, next) ==
    [error |-> "", suggestion |-> s.text, range |-> s.range, binding |-> s.binding,
     eol |-> s.eol, next |-> next]

----------------------------------------------------------------------------
(* handleNewSuggestion *)

\* The StreamCpp calls the handler issues for a request: none when the body
\* does not decode or there is no client, otherwise one, whether or not it
\* succeeds.
StreamCppCalls_Retry(input) ==
    CASE input \in {"badBody", "noClient"} -> 0 [] input = "connFail" -> 2 [] OTHER -> 1
StreamCppCalls(input) == IF input \in {"badBody", "noClient"} THEN 0 ELSE 1

\* How handleNewSuggestion ends for request r.
HReturn(r, how) ==
    /\ hpc' = [hpc EXCEPT ![r] = "done"]
    /\ hexit' = [hexit EXCEPT ![r] = how]
    /\ cancelled' = [cancelled EXCEPT ![r] = TRUE]

\* The request arrives: body decoding and the StreamCpp call.
HandleNew(r) ==
    /\ running
    /\ hpc[r] = "idle"
    /\ \E input \in (IF cursorClient THEN {"ok", "badBody", "connFail", "connCancelled"}
                                    ELSE {"badBody", "noClient"}) :
          /\ upstreamCalls' = [upstreamCalls EXCEPT ![r] = @ + StreamCppCalls(input)]
          /\ CASE input = "ok" ->
                    /\ hpc' = [hpc EXCEPT ![r] = "parse"]
                    /\ UNCHANGED <<response, cancelled, hexit>>
               [] input = "badBody" ->
                    /\ HReturn(r, "badBody")
                    /\ response' = [response EXCEPT ![r] = <<ErrorResponse("bad request body")>>]
               [] input = "noClient" ->
                    /\ HReturn(r, "noClient")
                    /\ response' = [response EXCEPT ![r] =
                                       <<ErrorResponse("cursor client not initialized")>>]
               [] input = "connFail" ->
                    /\ HReturn(r, "connFail")
                    /\ response' = [response EXCEPT ![r] = <<ErrorResponse("upstream unavailable")>>]
               [] OTHER ->
                    /\ HReturn(r, "connCancelled")
                    /\ UNCHANGED response
    /\ UNCHANGED <<stream, tail, pos, sstate, hcur, hout, firstSuggestion,
                   nextSuggestionID, hasMoreSuggestions, bvars, fvars, known, delivered,
                   puts, putsAfterCancel, store, idCounter, running, cursorClient, tvars, evars>>

\* The client goes away while the handler runs (the editor stops the
\* pending curl job): the request's context is done.
ClientCancel(r) ==
    /\ running
    /\ hpc[r] \in {"parse", "peek", "respond"}
    /\ ~cancelled[r]
    /\ cancelled' = [cancelled EXCEPT ![r] = TRUE]
    /\ UNCHANGED <<stream, tail, pos, sstate, hvars, bvars, fvars, gvars, store, idCounter,
                   running, cursorClient, tvars, evars>>

\* firstSuggestion, err := parseNextSuggestion(stream), one Receive per step,
\* and the two early returns that follow it.  A panic unwinds the handler:
\* net/http recovers it in the connection's goroutine and no payload is
\* written.
HParse(r) ==
    /\ running
    /\ hpc[r] = "parse"
    /\ \E o \in Receive(r) :
          LET p == ParseStep(hcur[r], o) IN
          /\ pos' = [pos EXCEPT ![r] = o.pos]
          /\ sstate' = [sstate EXCEPT ![r] = o.st]
          /\ hcur' = [hcur EXCEPT ![r] = p.cur]
          /\ hout' = [hout EXCEPT ![r] = [kind |-> p.kind, via |-> p.via]]
          /\ CASE p.kind = "more" ->
                    UNCHANGED <<hpc, firstSuggestion, response, cancelled, hexit>>
               [] p.kind = "suggestion" ->
                    /\ hpc' = [hpc EXCEPT ![r] = "peek"]
                    /\ firstSuggestion' = [firstSuggestion EXCEPT ![r] = p.cur]
                    /\ UNCHANGED <<response, cancelled, hexit>>
               [] p.kind = "error" ->
                    /\ HReturn(r, "parseError")
                    /\ response' = [response EXCEPT ![r] = <<ErrorResponse("stream error")>>]
                    /\ UNCHANGED firstSuggestion
               [] p.kind = "nil" ->
                    /\ HReturn(r, "noSuggestion")
                    /\ response' = [response EXCEPT ![r] = <<ErrorResponse("no suggestion returned")>>]
                    /\ UNCHANGED firstSuggestion
               [] OTHER ->
                    /\ HReturn(r, "panic")
                    /\ UNCHANGED <<firstSuggestion, response>>
    /\ UNCHANGED <<stream, tail, nextSuggestionID, hasMoreSuggestions, bvars, fvars,
                   gvars, store, idCounter, running, cursorClient, tvars, evars>>

\* The identifier argument of 'go storeRemainingSuggestions(ctx, stream,
\* nextSuggestionID)' for a generated identifier id.
TaskID_Other(id) == id + 1
TaskID(id) == id

\* Where the handler continues after its peek: at "Build response"; it
\* does not call Receive again.
AfterPeek_PeeksAgain == "peek"
AfterPeek == "respond"

\* The peek after the first suggestion; a begin-marker starts the
\* background task with a freshly generated identifier.
HPeek(r) ==
    /\ running
    /\ hpc[r] = "peek"
    /\ \E o \in Receive(r) :
          /\ pos' = [pos EXCEPT ![r] = o.pos]
          /\ sstate' = [sstate EXCEPT ![r] = o.st]
          /\ IF MoreComing(o)
             THEN LET id == GenerateSuggestionID(idCounter) IN
                  /\ idCounter' = id
                  /\ hasMoreSuggestions' = [hasMoreSuggestions EXCEPT ![r] = TRUE]
                  /\ nextSuggestionID' = [nextSuggestionID EXCEPT ![r] = id]
                  /\ bpc' = [bpc EXCEPT ![r] = "check"]
                  /\ currentID' = [currentID EXCEPT ![r] = TaskID(id)]
             ELSE UNCHANGED <<idCounter, hasMoreSuggestions, nextSuggestionID, bpc, currentID>>
    /\ hpc' = [hpc EXCEPT ![r] = AfterPeek]
    /\ UNCHANGED <<stream, tail, cancelled, hcur, hout, firstSuggestion, response, hexit,
                   bcur, bout, suggestion, bnext, count, bexit, fvars, gvars, store,
                   running, cursorClient, tvars, evars>>

\* The payload is built and written, and the handler returns: the server
\* then cancels the request's context.
HRespond(r) ==
    /\ running
    /\ hpc[r] = "respond"
    /\ LET next == IF hasMoreSuggestions[r] THEN nextSuggestionID[r] ELSE NoId IN
          /\ response' = [response EXCEPT ![r] = <<SuggestionResponse(firstSuggestion[r][1], next)>>]
          /\ known' = known \cup (IF next # NoId THEN {next} ELSE {})
    /\ HReturn(r, "responded")
    /\ UNCHANGED <<stream, tail, pos, sstate, hcur, hout, firstSuggestion,
                   nextSuggestionID, hasMoreSuggestions, bvars, fvars,
                   delivered, puts, putsAfterCancel, upstreamCalls, store, idCounter,
                   running, cursorClient, tvars, evars>>

----------------------------------------------------------------------------
(* storeRemainingSuggestions, the background goroutine of request r *)

\* defer func() { if r := recover(); r != nil { ... } }(): whether a panic
\* of the goroutine is stopped there.
DeferredRecover_Missing == FALSE
DeferredRecover == TRUE

BReturn_KeepsLooping(r, how) ==
    /\ bpc' = [bpc EXCEPT ![r] = "check"]
    /\ bexit' = [bexit EXCEPT ![r] = how]

BReturn(r, how) ==
    /\ bpc' = [bpc EXCEPT ![r] = "done"]
    /\ bexit' = [bexit EXCEPT ![r] = how]

BCheck_NoSelect(r) ==
    /\ running
    /\ bpc[r] = "check"
    /\ bpc' = [bpc EXCEPT ![r] = "parse"]
    /\ bcur' = [bcur EXCEPT ![r] = <<>>]
    /\ UNCHANGED <<svars, hvars, bout, suggestion, currentID, bnext, count, bexit,
                   fvars, gvars, store, idCounter, running, cursorClient, tvars, evars>>

\* 'var currentSuggestion *suggestionstore.Suggestion' of the call of
\* parseNextSuggestion that follows: nil, whatever the peek received.
FreshCur_FromPeeked(r) == ApplyText(ApplyRange(<<>>, stream[r][pos[r]]), stream[r][pos[r]])
FreshCur(r) == <<>>

\* Top of the loop: the select on ctx.Done().
BCheck(r) ==
    /\ running
    /\ bpc[r] = "check"
    /\ IF cancelled[r]
       THEN /\ BReturn(r, "cancelled")
            /\ UNCHANGED bcur
       ELSE /\ bpc' = [bpc EXCEPT ![r] = "parse"]
            /\ bcur' = [bcur EXCEPT ![r] = FreshCur(r)]
            /\ UNCHANGED bexit
    /\ UNCHANGED <<svars, hvars, bout, suggestion, currentID, bnext, count, fvars,
                   gvars, store, idCounter, running, cursorClient, tvars, evars>>

\* What the loop does with a decoded suggestion first: the peek.
AfterParse_StoresFirst == "store"
AfterParse == "peek"

\* suggestion, err := parseNextSuggestion(stream), one Receive per step, and
\* the two returns that follow it.  A panic is recovered by the deferred
\* function and the goroutine ends; unrecovered, it would end the process.
BParse(r) ==
    /\ running
    /\ bpc[r] = "parse"
    /\ \E o \in Receive(r) :
          LET p == ParseStep(bcur[r], o) IN
          /\ pos' = [pos EXCEPT ![r] = o.pos]
          /\ sstate' = [sstate EXCEPT ![r] = o.st]
          /\ bcur' = [bcur EXCEPT ![r] = p.cur]
          /\ bout' = [bout EXCEPT ![r] = [kind |-> p.kind, via |-> p.via]]
          /\ CASE p.kind = "more" -> UNCHANGED <<bpc, bexit, suggestion, running>>
               [] p.kind = "suggestion" ->
                    /\ bpc' = [bpc EXCEPT ![r] = AfterParse]
                    /\ suggestion' = [suggestion EXCEPT ![r] = p.cur]
                    /\ UNCHANGED <<bexit, running>>
               [] p.kind = "error" -> BReturn(r, "error") /\ UNCHANGED <<suggestion, running>>
               [] p.kind = "nil" -> BReturn(r, "streamEnded") /\ UNCHANGED <<suggestion, running>>
               [] OTHER ->
                    /\ BReturn(r, "panic")
                    /\ running' = DeferredRecover
                    /\ UNCHANGED suggestion
    /\ UNCHANGED <<stream, tail, cancelled, hvars, currentID, bnext, count, fvars,
                   gvars, store, idCounter, cursorClient, tvars, evars>>

\* The peek after a decoded suggestion.
BPeek(r) ==
    /\ running
    /\ bpc[r] = "peek"
    /\ \E o \in Receive(r) :
          /\ pos' = [pos EXCEPT ![r] = o.pos]
          /\ sstate' = [sstate EXCEPT ![r] = o.st]
          /\ IF MoreComing(o)
             THEN LET id == GenerateSuggestionID(idCounter) IN
                  /\ idCounter' = id
                  /\ bnext' = [bnext EXCEPT ![r] = id]
             ELSE /\ bnext' = [bnext EXCEPT ![r] = NoId]
                  /\ UNCHANGED idCounter
    /\ bpc' = [bpc EXCEPT ![r] = "store"]
    /\ UNCHANGED <<stream, tail, cancelled, hvars, bcur, bout, suggestion, currentID,
                   count, bexit, fvars, gvars, store, running, cursorClient, tvars, evars>>

\* The suggestion as it is handed to store.Store.
Linked_Unset(s, next) == s
Linked(s, next) == [s EXCEPT !.next = next]

\* store.Store(currentID, suggestion), then the end of the iteration.
BStore(r) ==
    /\ running
    /\ bpc[r] = "store"
    /\ LET s == Linked(suggestion[r][1], bnext[r]) IN
          /\ store' = StoreStore(store, currentID[r], s)
          /\ puts' = [puts EXCEPT ![r] =
                        Append(@, [id |-> currentID[r], sug |-> s, via |-> bout[r].via])]
    /\ putsAfterCancel' =
          [putsAfterCancel EXCEPT ![r] = IF cancelled[r] THEN @ + 1 ELSE @]
    /\ count' = [count EXCEPT ![r] = @ + 1]
    /\ IF bnext[r] = NoId
       THEN /\ BReturn(r, "complete")
            /\ UNCHANGED currentID
       ELSE /\ currentID' = [currentID EXCEPT ![r] = bnext[r]]
            /\ bpc' = [bpc EXCEPT ![r] = "check"]
            /\ UNCHANGED bexit
    /\ UNCHANGED <<svars, hvars, bcur, bout, suggestion, bnext, fvars, known,
                   delivered, upstreamCalls, idCounter, running, cursorClient, tvars, evars>>

----------------------------------------------------------------------------
(* handleGetSuggestion, call slot f, for an identifier the editor was given *)

\* suggestion := store.Get(suggestionID) and the not-found return.
FetchGet(f) ==
    /\ running
    /\ fpc[f] = "idle"
    /\ \E id \in known :
          LET got == StoreGet(store, id) IN
          /\ fid' = [fid EXCEPT ![f] = id]
          /\ fsug' = [fsug EXCEPT ![f] = got]
          /\ IF got = <<>>
             THEN /\ fresp' = [fresp EXCEPT ![f] =
                                 <<[id |-> id, payload |-> ErrorResponse("suggestion not found")]>>]
                  /\ UNCHANGED fpc
             ELSE /\ fpc' = [fpc EXCEPT ![f] = "got"]
                  /\ UNCHANGED fresp
    /\ UNCHANGED <<svars, hvars, bvars, gvars, store, idCounter, running, cursorClient, tvars, evars>>

\* store.Delete(suggestionID) and the payload.
FetchDelete(f) ==
    /\ running
    /\ fpc[f] = "got"
    /\ LET s == fsug[f][1] IN
          /\ store' = StoreDelete(store, fid[f])
          /\ fresp' = [fresp EXCEPT ![f] =
                         <<[id |-> fid[f], payload |-> SuggestionResponse(s, s.next)]>>]
          /\ known' = known \cup (IF s.next # NoId THEN {s.next} ELSE {})
          /\ delivered' = [k \in (DOMAIN delivered) \cup {fid[f]} |->
                             IF k = fid[f]
                             THEN (IF k \in DOMAIN delivered THEN delivered[k] ELSE {}) \cup {f}
                             ELSE delivered[k]]
    /\ fpc' = [fpc EXCEPT ![f] = "idle"]
    /\ UNCHANGED <<svars, hvars, bvars, fid, fsug, puts, putsAfterCancel, upstreamCalls,
                   idCounter, running, cursorClient, tvars, evars>>

----------------------------------------------------------------------------

Next ==
    \/ \E r \in Reqs : HandleNew(r)
    \/ \E r \in Reqs : ClientCancel(r)
    \/ \E r \in Reqs : HParse(r)
    \/ \E r \in Reqs : HPeek(r)
    \/ \E r \in Reqs : HRespond(r)
    \/ \E r \in Reqs : BCheck(r)
    \/ \E r \in Reqs : BParse(r)
    \/ \E r \in Reqs : BPeek(r)
    \/ \E r \in Reqs : BStore(r)
    \/ \E f \in Fetchers : FetchGet(f)
    \/ \E f \in Fetchers : FetchDelete(f)

Spec == Init /\ [][Next]_vars

SpecPair == InitPair /\ [][Next]_vars

----------------------------------------------------------------------------
(* The store by itself: a caller makes any calls, on a few identifiers and *)
(* two suggestions.                                                        *)

MaxCalls == 3

StoreIds == {1, 2}

StoreValues ==
    {[text |-> <<"a">>, range |-> <<>>, binding |-> "", eol |-> FALSE, next |-> NoId],
     [text |-> <<"b">>, range |-> <<>>, binding |-> "", eol |-> FALSE, next |-> 2]}

CallStore(id, s) ==
    /\ Len(calls) < MaxCalls
    /\ store' = StoreStore(store, id, s)
    /\ calls' = Append(calls, [op |-> "Store", id |-> id, val |-> <<s>>])
    /\ UNCHANGED <<svars, hvars, bvars, fvars, gvars, idCounter, running, cursorClient,
                   ret, evars>>

CallDelete(id) ==
    /\ Len(calls) < MaxCalls
    /\ store' = StoreDelete(store, id)
    /\ calls' = Append(calls, [op |-> "Delete", id |-> id, val |-> <<>>])
    /\ UNCHANGED <<svars, hvars, bvars, fvars, gvars, idCounter, running, cursorClient,
                   ret, evars>>

CallGet(id) ==
    /\ ret' = <<[op |-> "Get", id |-> id, val |-> StoreGet(store, id)]>>
    /\ ret' # ret
    /\ UNCHANGED <<svars, hvars, bvars, fvars, gvars, store, idCounter, running,
                   cursorClient, calls, evars>>

CallKeys ==
    /\ ret' = <<[op |-> "Keys", id |-> NoId, val |-> StoreKeys(store)]>>
    /\ ret' # ret
    /\ UNCHANGED <<svars, hvars, bvars, fvars, gvars, store, idCounter, running,
                   cursorClient, calls, evars>>

NextStore ==
    \/ \E id \in StoreIds : \E s \in StoreValues : CallStore(id, s)
    \/ \E id \in StoreIds : CallDelete(id)
    \/ \E id \in StoreIds : CallGet(id)
    \/ CallKeys

\* No request is in the server model and the editor is idle.
InitStore == InitWith({}, {})

SpecStore == InitStore /\ [][NextStore]_vars

\* A step of the background goroutine of request r.
BackgroundStep(r) == BCheck(r) \/ BParse(r) \/ BPeek(r) \/ BStore(r)

\* The Go scheduler does not starve a runnable goroutine, and a Receive on
\* a finite stream returns: a background task that can step eventually does.
SpecFair == Init /\ [][Next]_vars /\ \A r \in Reqs : WF_vars(BackgroundStep(r))

----------------------------------------------------------------------------
(* The editor: user events, timers, scheduled closures and job callbacks.  *)
(* An edit made in insert mode is followed at once by its TextChangedI     *)
(* event, so nothing else happens while that event is due.                 *)

\* The user types a character.
TypeKey ==
    /\ ~autocmdDue
    /\ Len(buffer) < MaxKeys
    /\ buffer' = Append(buffer, "k")
    /\ cursor' = <<cursor[1], cursor[2] + 1>>
    /\ autocmdDue' = TRUE
    /\ UNCHANGED <<M, scheduled, jobs, srvvars>>

\* The user deletes the last character (as long as fewer than MaxJobs jobs
\* exist, which keeps the number of requests of a run finite).
DeleteKey ==
    /\ ~autocmdDue
    /\ buffer # <<>>
    /\ Cardinality(jobs) < MaxJobs
    /\ buffer' = SubSeq(buffer, 1, Len(buffer) - 1)
    /\ cursor' = <<cursor[1], IF cursor[2] > 0 THEN cursor[2] - 1 ELSE 0>>
    /\ autocmdDue' = TRUE
    /\ UNCHANGED <<M, scheduled, jobs, srvvars>>

\* The first test of M.show_suggestion(suggestion_id): TRUE is its return
\* before anything is done.  id = NoId is the call without an identifier.
show_suggestion_returns_IgnoresEnabled(m, id) == m.accepting /\ id = NoId
show_suggestion_returns(m, id) == ~m.enabled \/ (m.accepting /\ id = NoId)

\* The TextChangedI autocmd: M.show_suggestion() without an identifier.
TextChangedI ==
    /\ autocmdDue
    /\ autocmdDue' = FALSE
    /\ M' = IF show_suggestion_returns(M, NoId)
            THEN M
            ELSE [clear_suggestion(M) EXCEPT !.debounce_timer = TRUE]
    /\ UNCHANGED <<buffer, cursor, scheduled, jobs, srvvars>>

\* The buffer lines the cursor can be on.
Lines == {0, 1}

\* The user moves the cursor without editing.
MoveCursor ==
    /\ ~autocmdDue
    /\ \E c \in Lines \X (0..Len(buffer)) : c # cursor /\ cursor' = c
    /\ UNCHANGED <<M, buffer, autocmdDue, scheduled, jobs, srvvars>>

\* The InsertLeave autocmd.
InsertLeave ==
    /\ ~autocmdDue
    /\ M.current_suggestion
    /\ M' = clear_suggestion(M)
    /\ UNCHANGED <<buffer, cursor, autocmdDue, scheduled, jobs, srvvars>>

\* The :CursorTab user command.
CursorTab(arg) ==
    /\ ~autocmdDue
    /\ M' = CASE arg = "toggle" ->
                   IF M.enabled THEN [clear_suggestion(M) EXCEPT !.enabled = FALSE]
                   ELSE [M EXCEPT !.enabled = TRUE]
               [] arg = "enable" -> [M EXCEPT !.enabled = TRUE]
               [] OTHER -> [clear_suggestion(M) EXCEPT !.enabled = FALSE]
    /\ M' # M
    /\ UNCHANGED <<buffer, cursor, autocmdDue, scheduled, jobs, srvvars>>

\* The locals accept_suggestion captures before it clears the suggestion.
Captured_AfterClear(m) ==
    [text |-> clear_suggestion(m).current_suggestion_text,
     next |-> clear_suggestion(m).next_suggestion_id]
Captured(m) == [text |-> m.current_suggestion_text, next |-> m.next_suggestion_id]

\* The guard of M.accept_suggestion: FALSE is its 'return false'.
CanAccept_WhileAccepting(m) == m.current_suggestion /\ m.current_suggestion_text # <<>>
CanAccept(m) == m.current_suggestion /\ ~m.accepting /\ m.current_suggestion_text # <<>>

\* The <Tab> mapping: M.accept_suggestion(), and a literal tab when it
\* returns false.
Tab ==
    /\ ~autocmdDue
    /\ IF CanAccept(M)
       THEN /\ scheduled' = <<[what |-> "insert", text |-> Captured(M).text,
                               next |-> Captured(M).next]>>
            /\ M' = clear_suggestion([M EXCEPT !.accepting = TRUE])
            /\ UNCHANGED <<buffer, cursor, autocmdDue>>
       ELSE /\ Len(buffer) < MaxKeys
            /\ buffer' = Append(buffer, "tab")
            /\ cursor' = <<cursor[1], cursor[2] + 1>>
            /\ autocmdDue' = TRUE
            /\ UNCHANGED <<M, scheduled>>
    /\ UNCHANGED <<jobs, srvvars>>

\* The closure accept_suggestion hands to vim.schedule: the text goes into
\* the buffer with TextChangedI ignored, then the chained fetch is deferred
\* or the acceptance ends.
RunInsert ==
    /\ ~autocmdDue
    /\ scheduled # <<>> /\ scheduled[1].what = "insert"
    /\ buffer' = buffer \o scheduled[1].text
    /\ cursor' = <<cursor[1], cursor[2] + 1>>
    /\ IF scheduled[1].next # NoId
       THEN /\ scheduled' = <<[what |-> "show", next |-> scheduled[1].next]>>
            /\ UNCHANGED M
       ELSE /\ scheduled' = <<>>
            /\ M' = [M EXCEPT !.accepting = FALSE]
    /\ UNCHANGED <<autocmdDue, jobs, srvvars>>

\* The closure deferred by 10 ms: M.show_suggestion(next_suggestion_id).
\* up is what M.ensure_server() returns.
RunShow ==
    /\ ~autocmdDue
    /\ scheduled # <<>> /\ scheduled[1].what = "show"
    /\ scheduled' = <<>>
    /\ IF show_suggestion_returns(M, scheduled[1].next)
       THEN UNCHANGED <<M, jobs>>
       ELSE LET m1 == clear_suggestion([M EXCEPT !.debounce_timer = FALSE])
            IN  \E up \in BOOLEAN :
                   IF up
                   THEN /\ jobs' = get_suggestion_jobs(m1, scheduled[1].next, cursor)
                        /\ M' = get_suggestion(m1)
                   ELSE /\ M' = m1
                        /\ UNCHANGED jobs
    /\ UNCHANGED <<buffer, cursor, autocmdDue, srvvars>>

\* The debounce timer fires: the cursor position is captured and the new
\* request is made.
TimerFires ==
    /\ ~autocmdDue
    /\ M.debounce_timer
    /\ LET m1 == [M EXCEPT !.debounce_timer = FALSE]
       IN  \E up \in BOOLEAN :
              IF up
              THEN /\ jobs' = get_suggestion_jobs(m1, NoId, cursor)
                   /\ M' = get_suggestion(m1)
              ELSE /\ M' = m1
                   /\ UNCHANGED jobs
    /\ UNCHANGED <<buffer, cursor, autocmdDue, scheduled, srvvars>>

\* A job that was not stopped ends: on_stdout with the whole output, then
\* on_exit.  The output is a payload with a suggestion, a payload without
\* one (error, not found, not JSON), or nothing.
JobEnds(j) ==
    /\ ~autocmdDue
    /\ j \in jobs /\ ~j.stopped
    /\ jobs' = jobs \ {j}
    /\ \E out \in {"suggestion", "none", "empty"} :
       \E next \in NextIds \cup {NoId} :
       \E display \in {"shown", "blank", "outOfRange"} :
          /\ out # "suggestion" => (next = NoId /\ display = "shown")
          /\ out = "suggestion" => Len(buffer) < MaxKeys + 1
          /\ LET m1 == IF out # "suggestion" THEN M
                       ELSE IF j.kind = "get" THEN show_chained_callback(M, next, display)
                       ELSE show_new_callback(M, j.at, next, display)
             IN  M' = [m1 EXCEPT !.pending_job = <<>>]
    /\ UNCHANGED <<buffer, cursor, autocmdDue, scheduled, srvvars>>

\* A job stopped by jobstop ends: only its on_exit has an effect.
StoppedJobExits(j) ==
    /\ ~autocmdDue
    /\ j \in jobs /\ j.stopped
    /\ jobs' = jobs \ {j}
    /\ M' = [M EXCEPT !.pending_job = <<>>]
    /\ UNCHANGED <<buffer, cursor, autocmdDue, scheduled, srvvars>>

NextEditor ==
    \/ TypeKey
    \/ TextChangedI
    \/ MoveCursor
    \/ InsertLeave
    \/ \E arg \in {"toggle", "enable", "disable"} : CursorTab(arg)
    \/ Tab
    \/ RunInsert
    \/ RunShow
    \/ TimerFires
    \/ \E j \in jobs : JobEnds(j)
    \/ \E j \in jobs : StoppedJobExits(j)

\* The editor alone: no request is in the server model.
InitEditor == InitWith({}, {}) /\ cursorClient

SpecEditor == InitEditor /\ [][NextEditor]_vars

\* A burst of edits: the user only types and deletes, and the requests this
\* starts run their course.
NextBurst ==
    \/ TypeKey
    \/ DeleteKey
    \/ TextChangedI
    \/ TimerFires
    \/ \E j \in jobs : JobEnds(j)
    \/ \E j \in jobs : StoppedJobExits(j)

SpecBurst == InitEditor /\ [][NextBurst]_vars

\* The editor's event loop runs every due autocmd, scheduled closure and
\* timer, and every started job ends; the user's actions are not forced.
SpecEditorFair ==
    /\ InitEditor
    /\ [][NextEditor]_vars
    /\ WF_vars(TextChangedI)
    /\ WF_vars(RunInsert)
    /\ WF_vars(RunShow)
    /\ WF_vars(TimerFires)
    /\ WF_vars(\E j \in jobs : JobEnds(j))
    /\ WF_vars(\E j \in jobs : StoppedJobExits(j))

----------------------------------------------------------------------------
(* Reference reading of a stream, used to state the claims: its edit       *)
(* units and the text each one stands for.                                 *)

RECURSIVE SplitUnits(_, _)
SplitUnits(s, acc) ==
    IF s = <<>> THEN <<>>
    ELSE IF Head(s).doneEdit
         THEN <<Append(acc, Head(s))>> \o SplitUnits(Tail(s), <<>>)
         ELSE SplitUnits(Tail(s), Append(acc, Head(s)))

Units(s) == SplitUnits(s, <<>>)

\* The chunks of edit unit i that the decoder is given: for a later unit
\* the chunk the peek consumed (the separating begin-marker) is not one.
UnitBody(s, i) == IF i = 1 THEN Units(s)[1] ELSE Tail(Units(s)[i])

RECURSIVE Fragments(_)
Fragments(u) == IF u = <<>> THEN <<>> ELSE Head(u).text \o Fragments(Tail(u))

RECURSIVE RemoveEolFlag(_)
RemoveEolFlag(u) ==
    IF u = <<>> THEN FALSE
    ELSE LET c == u[Len(u)] IN
         IF c.range # <<>> /\ c.eol # <<>> THEN c.eol[1]
         ELSE RemoveEolFlag(SubSeq(u, 1, Len(u) - 1))

ExpectedText(u) ==
    LET t == Fragments(u) IN
    IF RemoveEolFlag(u) /\ t # <<>> /\ t[1] = NL THEN Tail(t) ELSE t

HandlerDone(r) == hpc[r] = "done"
TaskDone(r) == bpc[r] = "done"
Settled(r) == hpc[r] = "done" /\ bpc[r] \in {"none", "done"}

\* The chain of request r as written: the identifier given with the first
\* suggestion, then the stored entries in order.
ChainLinked(r) ==
    /\ puts[r] # <<>> => puts[r][1].id = nextSuggestionID[r]
    /\ \A i \in 1..(Len(puts[r]) - 1) : puts[r][i].sug.next = puts[r][i + 1].id

\* The binding id the stream sent for edit unit u: the one of the last chunk
\* of the unit that carries one, none if no chunk does.
RECURSIVE SentBinding(_)
SentBinding(u) ==
    IF u = <<>> THEN ""
    ELSE LET c == u[Len(u)] IN
         IF c.binding # <<>> THEN c.binding[1]
         ELSE SentBinding(SubSeq(u, 1, Len(u) - 1))

\* Every entry the task of request r stored is still in the Store as it was
\* stored, unless a fetch has taken it.
EntriesIntact(r) ==
    \A i \in DOMAIN puts[r] :
        \/ puts[r][i].id \in StoreKeys(store) /\ store[puts[r][i].id] = puts[r][i].sug
        \/ puts[r][i].id \in DOMAIN delivered

\* The identifiers generated so far, each with the request and the place in
\* that request's chain it was generated for.
Generated ==
    {[req |-> r, slot |-> 0, id |-> nextSuggestionID[r]] :
        r \in {q \in Reqs : hasMoreSuggestions[q]}}
    \cup UNION {{[req |-> r, slot |-> i, id |-> puts[r][i].sug.next] :
                   i \in {j \in DOMAIN puts[r] : puts[r][j].sug.next # NoId}} : r \in Reqs}
    \cup {[req |-> r, slot |-> Len(puts[r]) + 1, id |-> bnext[r]] :
            r \in {q \in Reqs : bpc[q] = "store" /\ bnext[q] # NoId}}

----------------------------------------------------------------------------
(* Claims *)

\* C1: for every request whose stream carries N >= 2 edit units, once the
\* background task has finished, the nextSuggestionID returned with
\* suggestion 1 is the key of stored suggestion 2, each stored suggestion i
\* (1 < i < N) links to the key of suggestion i+1, and suggestion N's
\* nextSuggestionID is empty.  (Stated here for well-formed streams only.)
C1_ChainIntegrity ==
    \A r \in Reqs :
        (stream[r] \in WellFormed /\ DoneEdits(stream[r]) >= 2 /\ HandlerDone(r) /\ TaskDone(r))
        => /\ response[r] # <<>>
           /\ Len(puts[r]) = DoneEdits(stream[r]) - 1
           /\ response[r][1].next = puts[r][1].id
           /\ ChainLinked(r)
           /\ puts[r][Len(puts[r])].sug.next = NoId

\* C2: a FetchSuggestion(id) call that finds the identifier returns the
\* suggestion stored under it; once it has returned, the identifier is absent
\* from the Store, and a later call of the same caller for that identifier
\* does not find it: it answers 'suggestion not found'.
C2_AtMostOnceSequential ==
    /\ \A id \in DOMAIN delivered :
          /\ id \notin StoreKeys(store)
          /\ \A f \in delivered[id] :
                /\ ~(fpc[f] = "got" /\ fid[f] = id)
                /\ (fresp[f][1].id = id /\ fresp[f][1].payload.error # "")
                      => fresp[f][1].payload.error = "suggestion not found"
    /\ \A f \in Fetchers :
          (fresp[f] # <<>> /\ fresp[f][1].payload.error = "")
          => \E r \in Reqs : \E i \in DOMAIN puts[r] :
                /\ puts[r][i].id = fresp[f][1].id
                /\ fresp[f][1].payload = SuggestionResponse(puts[r][i].sug, puts[r][i].sug.next)

C2_Witness ==
    \E f \in Fetchers :
        /\ fresp[f] # <<>>
        /\ fresp[f][1].id \in DOMAIN delivered
        /\ f \in delivered[fresp[f][1].id]
        /\ fresp[f][1].payload.error = "suggestion not found"

\* C3: a stored suggestion is never delivered to two fetches, whatever the
\* interleaving of two concurrent FetchSuggestion calls.
C3_AtomicTake ==
    \A id \in DOMAIN delivered : Cardinality(delivered[id]) <= 1

\* C4: within one chain every identifier is generated before it is revealed
\* to a client; an identifier revealed by a fetched suggestion was stored as
\* that suggestion's nextSuggestionID before the fetch could reveal it; and
\* each identifier is written once, by the background task of the request
\* whose chain it belongs to, in chain order.
C4_OrderingWithinChain ==
    /\ \A id \in known :
          /\ id \in 1..idCounter
          /\ \/ \E r \in Reqs :
                   HandlerDone(r) /\ hasMoreSuggestions[r] /\ nextSuggestionID[r] = id
             \/ \E r \in Reqs : \E i \in DOMAIN puts[r] :
                   puts[r][i].sug.next = id /\ puts[r][i].id \in DOMAIN delivered
    /\ \A r \in Reqs : ChainLinked(r)
    /\ \A r1, r2 \in Reqs : \A i \in DOMAIN puts[r1] : \A j \in DOMAIN puts[r2] :
          puts[r1][i].id = puts[r2][j].id => (r1 = r2 /\ i = j)

C4_Witness ==
    \E r \in Reqs : \E i \in DOMAIN puts[r] :
        puts[r][i].sug.next # NoId /\ puts[r][i].sug.next \in known

\* C5: at the moment a nextSuggestionID is revealed to a client the Store
\* already holds an entry under it: every revealed identifier that no fetch
\* has consumed yet is a key of the Store.
C5_AdvertisedIsStored ==
    \A id \in known :
        \/ id \in StoreKeys(store)
        \/ id \in DOMAIN delivered
        \/ \E f \in Fetchers : fpc[f] = "got" /\ fid[f] = id

\* C6: after the hand-off to the background task, cancellation of the
\* request's context (handler return, client disconnect) does not stop the
\* task: it never returns through its cancellation branch.
C6_CancelOnlySynchronous ==
    \A r \in Reqs : bexit[r] # "cancelled"

\* C7 (as claimed): once the request's cancellation signal has fired, no
\* further insert into the Store is performed for that request.
C7_NoInsertAfterCancel ==
    \A r \in Reqs : putsAfterCancel[r] = 0

\* C7 (amended): the task checks the signal once per iteration, at the top of
\* the loop, so once the signal has fired at most one further insert is
\* performed for that request: the one of the iteration already past the check.
C7_AtMostOneInsertAfterCancel ==
    \A r \in Reqs : putsAfterCancel[r] <= 1

C7_Witness ==
    \E r \in Reqs : putsAfterCancel[r] = 1 /\ TaskDone(r)

\* C8: every suggestion put in the Store was decoded up to its done-edit
\* marker; a stream that closes in the middle of an edit unit never gets a
\* partially accumulated suggestion stored.
C8_StoredAreComplete ==
    \A r \in Reqs : \A i \in DOMAIN puts[r] : puts[r][i].via = "doneEdit"

\* C9: when the stream closes or errors before a done-edit or done-stream
\* marker, parseNextSuggestion returns an error, never a suggestion and
\* never end-of-stream.
C9_TruncatedIsFailure ==
    \A r \in Reqs :
        /\ hout[r].via = "closed" => hout[r].kind = "error"
        /\ bout[r].via = "closed" => bout[r].kind = "error"

\* C10: for a well-formed stream of N edit units whose transport did not
\* fail, the synchronous decode and the background task together yield
\* exactly N suggestions (1 in the response, N-1 stored), each with the text
\* of its own fragments in arrival order, less one leading newline where the
\* flag is set.
C10_DecodeRoundTrip ==
    \A r \in Reqs :
        (/\ stream[r] \in WellFormed
         /\ DoneEdits(stream[r]) >= 1
         /\ pos[r] > 0
         /\ sstate[r] = "open"
         /\ Settled(r))
        => LET us == Units(stream[r]) IN
           /\ response[r] # <<>>
           /\ response[r][1].error = ""
           /\ response[r][1].suggestion = ExpectedText(us[1])
           /\ Len(puts[r]) = Len(us) - 1
           /\ \A i \in DOMAIN puts[r] : puts[r][i].sug.text = ExpectedText(us[i + 1])

\* C11: a done-edit marker that arrives with no text fragment before it (and
\* with or without a range chunk before it) makes parseNextSuggestion return
\* a suggestion whose text is empty: the decode neither fails nor panics.
C11_EmptyEditYieldsSuggestion ==
    \A r \in Reqs :
        /\ hout[r].via = "doneEdit"
              => /\ hout[r].kind = "suggestion"
                 /\ Fragments(Units(stream[r])[1]) = <<>> => firstSuggestion[r][1].text = <<>>
        /\ bout[r].via = "doneEdit" => bout[r].kind = "suggestion"

\* C12: when the stream carries exactly one edit unit followed directly by
\* the done-stream marker, the response of RequestNewSuggestion has no
\* nextSuggestionID, no background task is started for the request, and the
\* request inserts nothing into the Store: every key of the Store was put
\* there by another request.
C12_SingleSuggestionShortCircuit ==
    \A r \in Reqs :
        (stream[r] \in WellFormed /\ DoneEdits(stream[r]) = 1)
        => /\ bpc[r] = "none"
           /\ ~hasMoreSuggestions[r]
           /\ puts[r] = <<>>
           /\ response[r] # <<>> => response[r][1].next = NoId
           /\ \A id \in StoreKeys(store) :
                 \E q \in Reqs \ {r} : \E i \in DOMAIN puts[q] : puts[q][i].id = id

C12_Witness ==
    \E r \in Reqs :
        /\ stream[r] \in WellFormed
        /\ DoneEdits(stream[r]) = 1
        /\ hexit[r] = "responded"
        /\ response[r][1].error = ""
        /\ response[r][1].next = NoId
        /\ store # <<>>

\* C13: when the only chunk of the stream is the done-stream marker, a
\* RequestNewSuggestion that received it answers with the error payload
\* 'no suggestion returned': the handler does not crash, starts no
\* background task and inserts nothing into the Store.
C13_EmptyStreamIsAnError ==
    \A r \in Reqs :
        (stream[r] = <<DoneStream>> /\ pos[r] = 1 /\ HandlerDone(r))
        => /\ hexit[r] = "noSuggestion"
           /\ response[r] = <<ErrorResponse("no suggestion returned")>>
           /\ running
           /\ bpc[r] = "none"
           /\ puts[r] = <<>>
           /\ \A id \in StoreKeys(store) :
                 \E q \in Reqs \ {r} : \E i \in DOMAIN puts[q] : puts[q][i].id = id

C13_Witness ==
    \E r \in Reqs :
        /\ stream[r] = <<DoneStream>>
        /\ pos[r] = 1
        /\ response[r] # <<>>
        /\ response[r][1].error = "no suggestion returned"
        /\ store # <<>>

\* C14: at the done-edit marker, when the remove-leading-EOL flag is set and
\* the accumulated text begins with a newline, exactly one leading newline
\* is removed (NL foo becomes foo, NL NL foo becomes NL foo); when the flag
\* is set and the text does not begin with a newline, or the flag is not
\* set, the text is the accumulated text unchanged.
C14_LeadingEolStripping ==
    \A r \in Reqs :
        stream[r] \in WellFormed
        => LET us == Units(stream[r])
               StrippedOnce(u, t) ==
                   LET raw == Fragments(u) IN
                   IF RemoveEolFlag(u) /\ raw # <<>> /\ raw[1] = NL
                   THEN t = Tail(raw)
                   ELSE t = raw
           IN  /\ (hout[r].via = "doneEdit" /\ firstSuggestion[r] # <<>>)
                      => StrippedOnce(us[1], firstSuggestion[r][1].text)
               /\ \A i \in DOMAIN puts[r] :
                      puts[r][i].via = "doneEdit" => StrippedOnce(us[i + 1], puts[r][i].sug.text)

C14_Witness ==
    \E r \in Reqs :
        /\ stream[r] \in WellFormed
        /\ puts[r] # <<>>
        /\ puts[r][1].via = "doneEdit"
        /\ puts[r][1].sug.eol
        /\ Fragments(Units(stream[r])[2]) = <<NL, NL, "b">>
        /\ puts[r][1].sug.text = <<NL, "b">>

\* C15: a decode error in the background task ends the task: from then on
\* the task is finished and makes no further store.Store call, and the
\* suggestions it stored before the error stay in the Store unchanged until
\* a fetch takes them.
C15_BackgroundErrorAbortsChain ==
    /\ [](\A r \in Reqs : bexit[r] = "error" => (TaskDone(r) /\ EntriesIntact(r)))
    /\ [][\A r \in Reqs :
            bexit[r] = "error"
            => (bexit'[r] = "error" /\ bpc'[r] = "done" /\ puts'[r] = puts[r])]_vars

C15_Witness ==
    \E r \in Reqs : \E f \in Fetchers :
        /\ bexit[r] = "error"
        /\ puts[r] # <<>>
        /\ fpc[f] = "got"
        /\ fid[f] = puts[r][1].id
        /\ fsug[f] = <<puts[r][1].sug>>

C17_ServerKeepsServing ==
    /\ running
    /\ \A q \in Reqs : hpc[q] = "idle" => ENABLED HandleNew(q)
    /\ \A f \in Fetchers : (fpc[f] = "idle" /\ known # {}) => ENABLED FetchGet(f)

C17_Witness ==
    \E r, q \in Reqs :
        /\ bexit[r] = "panic"
        /\ hpc[q] = "idle"
        /\ known # {}
        /\ ENABLED HandleNew(q)

\* C18: the StreamCpp call is issued once for each RequestNewSuggestion that
\* gets as far as the upstream (and not at all for one rejected before it),
\* whatever the number of suggestions in its stream; it is never issued a
\* second time, not after a failure either; and no step of FetchSuggestion
\* or of a background task issues one: the count of a request only changes,
\* by one, in the step in which its handler takes the request up.
C18_OneUpstreamCallPerRequest ==
    /\ [](\A r \in Reqs :
            /\ upstreamCalls[r] <= 1
            /\ hpc[r] \in {"idle", "off"} => upstreamCalls[r] = 0
            /\ hpc[r] \in {"parse", "peek", "respond", "done"}
                  => upstreamCalls[r] = (IF hexit[r] \in {"badBody", "noClient"} THEN 0 ELSE 1))
    /\ [][\A r \in Reqs :
            upstreamCalls'[r] # upstreamCalls[r]
            => (hpc[r] = "idle" /\ fvars' = fvars /\ bvars' = bvars)]_vars

C18_Witness ==
    \E r \in Reqs :
        /\ upstreamCalls[r] = 1
        /\ bexit[r] = "complete"
        /\ Len(puts[r]) >= 2
        /\ puts[r][2].id \in DOMAIN delivered

C20_StoredSuggestionImmutable ==
    /\ [](\A id \in StoreKeys(store) :
            \E r \in Reqs : \E i \in DOMAIN puts[r] :
                puts[r][i].id = id /\ store[id] = puts[r][i].sug)
    /\ [][\A id \in StoreKeys(store) :
            id \in StoreKeys(store') => store'[id] = store[id]]_vars
    /\ [][\A r \in Reqs :
            Len(puts'[r]) > Len(puts[r])
            => LET id == puts'[r][Len(puts'[r])].id
               IN  id \notin StoreKeys(store) /\ id \notin DOMAIN delivered]_vars

C20_Witness ==
    \E r \in Reqs :
        /\ Len(puts[r]) >= 2
        /\ puts[r][1].id \in StoreKeys(store)
        /\ puts[r][2].id \in StoreKeys(store)
        /\ store[puts[r][1].id] = puts[r][1].sug
        /\ store[puts[r][1].id] # store[puts[r][2].id]

\* C21: a Store entry is removed only by a FetchSuggestion of its own
\* identifier that found it: a key leaves the Store only in the store.Delete
\* step of a fetch call that holds that identifier and the entry it got; no
\* other step (new request, other fetch, background task, cancellation)
\* removes it, so every entry stored and never fetched is still in the Store.
C21_RemovedOnlyByOwnFetch ==
    /\ [][\A id \in StoreKeys(store) :
            id \notin StoreKeys(store')
            => \E f \in Fetchers :
                  /\ fpc[f] = "got" /\ fid[f] = id /\ fsug[f] = <<store[id]>>
                  /\ fpc'[f] = "idle"
                  /\ StoreKeys(store') = StoreKeys(store) \ {id}]_vars
    /\ [](\A r \in Reqs : \A i \in DOMAIN puts[r] :
            puts[r][i].id \in StoreKeys(store) \/ puts[r][i].id \in DOMAIN delivered)

C21_Witness ==
    \E r, q \in Reqs :
        /\ r # q
        /\ puts[r] # <<>> /\ puts[q] # <<>>
        /\ puts[r][1].id \in DOMAIN delivered
        /\ puts[q][1].id \in StoreKeys(store)
        /\ puts[q][1].id \notin DOMAIN delivered
        /\ TaskDone(q) /\ cancelled[q]

\* C22: FetchSuggestion(id) for a stored identifier returns exactly the
\* stored text, range, bindingID, shouldRemoveLeadingEol and
\* nextSuggestionID, and removes that entry and no other; for an identifier
\* that is not a key of the Store it answers 'suggestion not found' and
\* leaves the Store unchanged.
C22_FetchReturnsStoredFields ==
    [][\A f \in Fetchers :
         /\ (fpc[f] = "idle" /\ fpc'[f] = "got")
               => /\ fid'[f] \in StoreKeys(store)
                  /\ fsug'[f] = <<store[fid'[f]]>>
                  /\ store' = store
         /\ (fpc[f] = "idle" /\ fpc'[f] = "idle" /\ <<fid'[f], fresp'[f]>> # <<fid[f], fresp[f]>>)
               => /\ fid'[f] \notin StoreKeys(store)
                  /\ fresp'[f] = <<[id |-> fid'[f],
                                    payload |-> ErrorResponse("suggestion not found")]>>
                  /\ store' = store
         /\ (fpc[f] = "got" /\ fpc'[f] = "idle")
               => LET s == fsug[f][1]
                      p == fresp'[f][1].payload
                  IN  /\ fresp'[f][1].id = fid[f]
                      /\ p.error = ""
                      /\ p.suggestion = s.text
                      /\ p.range = s.range
                      /\ p.binding = s.binding
                      /\ p.eol = s.eol
                      /\ p.next = s.next
                      /\ StoreKeys(store') = StoreKeys(store) \ {fid[f]}
                      /\ \A k \in StoreKeys(store') : store'[k] = store[k]]_vars

C22_Witness ==
    \E f \in Fetchers :
        /\ fresp[f] # <<>>
        /\ fresp[f][1].payload.error = ""
        /\ fresp[f][1].payload.next # NoId
        /\ fresp[f][1].payload.next \in StoreKeys(store)
        /\ fresp[f][1].id \notin StoreKeys(store)

\* C23: the binding id the upstream sent for an edit unit is carried through
\* verbatim: the suggestion returned or stored for that unit has the binding
\* id the stream sent for it, whichever chunk of the unit carried it.
C23_BindingCarriedThrough ==
    \A r \in Reqs :
        stream[r] \in WellFormed
        => LET us == Units(stream[r])
           IN  /\ (hout[r].via = "doneEdit" /\ firstSuggestion[r] # <<>>)
                      => firstSuggestion[r][1].binding = SentBinding(us[1])
               /\ (response[r] # <<>> /\ response[r][1].error = "")
                      => response[r][1].binding = SentBinding(us[1])
               /\ \A i \in DOMAIN puts[r] :
                      puts[r][i].via = "doneEdit"
                      => puts[r][i].sug.binding = SentBinding(us[i + 1])

\* C24: the editor's Tab key.  When a suggestion is displayed and no
\* acceptance is in progress, Tab accepts it: accept_suggestion takes the
\* displayed text and its next_suggestion_id, marks the acceptance in
\* progress, clears the display and puts no tab in the buffer.  Otherwise
\* (nothing displayed, or an acceptance in progress) accept_suggestion
\* returns false: a literal tab goes into the buffer and the plugin's state
\* is unchanged.
C24_TabAcceptsOrInsertsTab ==
    [][Tab =>
         IF M.current_suggestion /\ ~M.accepting
         THEN /\ M.current_suggestion_text # <<>>
              /\ scheduled' = <<[what |-> "insert", text |-> M.current_suggestion_text,
                                 next |-> M.next_suggestion_id]>>
              /\ M'.accepting /\ ~M'.current_suggestion
              /\ buffer' = buffer
         ELSE /\ buffer' = Append(buffer, "tab")
              /\ M' = M
              /\ scheduled' = scheduled
              /\ jobs' = jobs]_vars

C24_Witness ==
    /\ M.accepting
    /\ scheduled # <<>>
    /\ autocmdDue
    /\ buffer # <<>>
    /\ buffer[Len(buffer)] = "tab"

\* C25: the editor's enable/disable command.  A step of ':CursorTab' that
\* disables the plugin ('disable', or 'toggle' while enabled) leaves no
\* suggestion displayed; while the plugin is disabled a TextChangedI event
\* arms no debounce timer and starts no request (it changes nothing); and
\* 'toggle' flips the enabled flag, so applying it twice restores it.
C25_DisableStopsSuggestions ==
    /\ [][(M.enabled /\ ~M'.enabled)
            => ~M'.current_suggestion]_vars
    /\ [][(TextChangedI /\ ~M.enabled) => (M' = M /\ jobs' = jobs /\ scheduled' = scheduled)]_vars
    /\ [][CursorTab("toggle") => M'.enabled = ~M.enabled]_vars
    /\ [][CursorTab("disable") => ~M'.enabled]_vars

\* The plugin is disabled and two keys were typed, the last TextChangedI
\* event has been handled, and neither a timer nor a request exists.
C25_Witness ==
    /\ ~M.enabled
    /\ buffer = <<"k", "k">>
    /\ ~autocmdDue
    /\ ~M.debounce_timer
    /\ jobs = {}
    /\ ~M.current_suggestion

\* C26: the background task terminates.  Under fair scheduling a started
\* task reaches a return point; it never reads past the end of its finite
\* stream; and an iteration that loops again has consumed a chunk: a decode
\* step that stays in the decoder consumes one, a peek that announces
\* another suggestion consumes one, and the loop is re-entered only after
\* such a peek (the last chunk read is that begin-marker).
C26_BackgroundTaskTerminates ==
    /\ \A r \in Reqs : (bpc[r] \notin {"none", "done"}) ~> (bpc[r] = "done")
    /\ [](\A r \in Reqs : pos[r] <= Len(stream[r]) /\ count[r] <= pos[r])
    /\ [](\A r \in Reqs : bpc[r] = "done" =>
              bexit[r] \in {"streamEnded", "error", "cancelled", "complete"})
    /\ [][\A r \in Reqs :
            /\ (BParse(r) /\ bpc'[r] = "parse") => pos'[r] = pos[r] + 1
            /\ (BPeek(r) /\ bnext'[r] # NoId) => pos'[r] = pos[r] + 1
            /\ (BStore(r) /\ bpc'[r] = "check")
                  => (pos[r] >= 1 /\ stream[r][pos[r]].begin /\ bnext[r] # NoId)
            /\ (BStore(r) /\ bpc'[r] # "check") => bpc'[r] = "done"]_vars

\* C27: the upstream stream of a request is read by one task at a time.
\* The handler calls Receive only while no background task exists for the
\* request; once the task is started every read of the stream is the
\* task's; a read moves only the stream of the reading request; and the
\* steps of one request leave every other request's stream, handler and
\* task state alone.
HandlerReads(r) == HParse(r) \/ HPeek(r)
TaskReads(r) == BParse(r) \/ BPeek(r)
RequestStep(r) ==
    HandleNew(r) \/ ClientCancel(r) \/ HParse(r) \/ HPeek(r) \/ HRespond(r) \/ BackgroundStep(r)

C27_StreamReadByOneTask ==
    [][\A r \in Reqs :
         /\ HandlerReads(r) => bpc[r] = "none"
         /\ TaskReads(r) => hpc[r] \in {"respond", "done"}
         /\ (pos'[r] # pos[r] \/ sstate'[r] # sstate[r])
               => (HandlerReads(r) \/ TaskReads(r))
         /\ (bpc[r] # "none" /\ (pos'[r] # pos[r] \/ sstate'[r] # sstate[r]))
               => TaskReads(r)
         /\ RequestStep(r) =>
               \A q \in Reqs \ {r} :
                  /\ pos'[q] = pos[q] /\ sstate'[q] = sstate[q] /\ stream'[q] = stream[q]
                  /\ cancelled'[q] = cancelled[q]
                  /\ hpc'[q] = hpc[q] /\ hcur'[q] = hcur[q]
                  /\ bpc'[q] = bpc[q] /\ bcur'[q] = bcur[q]
                  /\ currentID'[q] = currentID[q]]_vars

\* The task of request 1 has read a text chunk while its handler has not
\* returned yet, and request 2 has read from its own stream.
C27_Witness ==
    /\ hpc[1] = "respond"
    /\ bpc[1] = "parse"
    /\ bcur[1] # <<>>
    /\ pos[2] > 0

\* C28: a request starts at most one background task, and starts it exactly
\* when the chunk peeked after the first suggestion is a begin-marker.  The
\* identifier the response then carries as nextSuggestionID is the one
\* handed to the task, and the first entry the task stores is stored under
\* it; a response of a request without a task carries no nextSuggestionID.
PeekedBegin(r) == pos'[r] = pos[r] + 1 /\ stream[r][pos'[r]].begin

C28_OneTaskOnBeginMarker ==
    /\ [][\A r \in Reqs :
            /\ (bpc[r] # bpc'[r] /\ bpc'[r] = "check" /\ ~BStore(r))
                  => (HPeek(r) /\ bpc[r] = "none" /\ PeekedBegin(r)
                      /\ hasMoreSuggestions'[r]
                      /\ nextSuggestionID'[r] # NoId
                      /\ currentID'[r] = nextSuggestionID'[r])
            /\ (HPeek(r) /\ PeekedBegin(r)) => (bpc[r] = "none" /\ bpc'[r] = "check")
            /\ (HPeek(r) /\ ~PeekedBegin(r)) => (bpc'[r] = "none" /\ ~hasMoreSuggestions'[r])
            /\ bpc[r] # "none" => (bpc'[r] # "none"
                                   /\ nextSuggestionID'[r] = nextSuggestionID[r])]_vars
    /\ [](\A r \in Reqs :
            /\ (bpc[r] # "none") = hasMoreSuggestions[r]
            /\ hexit[r] = "responded" =>
                  response[r][1].next = (IF bpc[r] # "none" THEN nextSuggestionID[r] ELSE NoId)
            /\ puts[r] # <<>> => (bpc[r] # "none" /\ puts[r][1].id = nextSuggestionID[r]))

\* The handler answered with a nextSuggestionID and the task has stored its
\* first entry.
C28_Witness ==
    /\ hexit[1] = "responded"
    /\ response[1][1].next # NoId
    /\ puts[1] # <<>>
    /\ puts[1][1].id = response[1][1].next

\* C29: a done-stream marker that arrives before the done-edit marker of
\* the edit unit being decoded ends the decode with EndOfStream, and what
\* was accumulated for that unit is dropped.  In the handler the request is
\* answered 'no suggestion returned' and no first suggestion is kept; in
\* the background task the task returns, and nothing is written to the
\* Store then or later.
GotDoneStream(r) ==
    /\ pos'[r] = pos[r] + 1
    /\ stream[r][pos'[r]].doneStream
    /\ ~stream[r][pos'[r]].doneEdit

C29_DoneStreamDiscardsUnfinishedEdit ==
    /\ [][\A r \in Reqs :
            /\ (HParse(r) /\ GotDoneStream(r))
                  => /\ hout'[r] = [kind |-> "nil", via |-> "doneStream"]
                     /\ hcur'[r] = <<>>
                     /\ firstSuggestion'[r] = <<>>
                     /\ response'[r] = <<ErrorResponse("no suggestion returned")>>
                     /\ hpc'[r] = "done" /\ bpc'[r] = "none"
                     /\ store' = store
            /\ (BParse(r) /\ GotDoneStream(r))
                  => /\ bout'[r] = [kind |-> "nil", via |-> "doneStream"]
                     /\ bcur'[r] = <<>>
                     /\ bpc'[r] = "done" /\ bexit'[r] = "streamEnded"
                     /\ store' = store /\ puts' = puts]_vars
    /\ [][\A r \in Reqs :
            (bout[r].via = "doneStream" \/ hout[r].via = "doneStream")
               => puts'[r] = puts[r]]_vars

\* The task met the done-stream marker right after a text chunk of an edit
\* unit that had no done-edit marker yet.
C29_Witness ==
    /\ bexit[1] = "streamEnded"
    /\ bout[1].via = "doneStream"
    /\ pos[1] > 1
    /\ stream[1][pos[1]].doneStream
    /\ stream[1][pos[1] - 1].text # <<>>
    /\ ~stream[1][pos[1] - 1].doneEdit

\* C30: an advertised identifier whose suggestion did not complete stays
\* dangling.  The identifiers a request advertises are the nextSuggestionID
\* the handler generated and the nextSuggestionID of every entry its task
\* stored; an entry is stored under such an identifier only when the
\* done-edit marker of its edit unit was received, so when the stream
\* ends, fails or is cancelled before that marker nothing is ever stored
\* under it.
Advertised(r) ==
    ((IF hasMoreSuggestions[r] THEN {nextSuggestionID[r]} ELSE {})
     \cup {puts[r][i].sug.next : i \in DOMAIN puts[r]}) \ {NoId}

C30_UnfinishedIdStaysDangling ==
    \A r \in Reqs : \A i \in DOMAIN puts[r] :
        puts[r][i].id \in Advertised(r) => puts[r][i].via = "doneEdit"

\* C31: the range of a decoded suggestion.  Every range in a response, in
\* the decoder's result or in a stored entry is <<start line, 0, end line,
\* -1>>; for a suggestion completed by its done-edit marker the lines are
\* those of the last range chunk of its edit unit, and the suggestion has
\* no range when the unit carried no range chunk.
RECURSIVE ExpectedRange(_)
ExpectedRange(u) ==
    IF u = <<>> THEN <<>>
    ELSE LET c == u[Len(u)] IN
         IF c.range # <<>> THEN <<c.range[1], 0, c.range[2], -1>>
         ELSE ExpectedRange(SubSeq(u, 1, Len(u) - 1))

LineBoundsOnly(rg) == rg = <<>> \/ (Len(rg) = 4 /\ rg[2] = 0 /\ rg[4] = -1)

C31_RangeIsLineBounds ==
    \A r \in Reqs :
        LET us == Units(stream[r]) IN
        /\ firstSuggestion[r] # <<>>
              => /\ LineBoundsOnly(firstSuggestion[r][1].range)
                 /\ hout[r].via = "doneEdit"
                       => firstSuggestion[r][1].range = ExpectedRange(us[1])
        /\ (response[r] # <<>> /\ response[r][1].error = "")
              => response[r][1].range = firstSuggestion[r][1].range
        /\ \A i \in DOMAIN puts[r] :
              /\ LineBoundsOnly(puts[r][i].sug.range)
              /\ puts[r][i].via = "doneEdit"
                    => puts[r][i].sug.range = ExpectedRange(UnitBody(stream[r], i + 1))
        /\ \A id \in StoreKeys(store) : LineBoundsOnly(store[id].range)

\* Both suggestions of the stream with two range chunks per unit are out:
\* the first in the response, the second stored.
C31_Witness ==
    /\ stream[1] \in Reranged
    /\ response[1] # <<>>
    /\ response[1][1].range = <<2, 0, 3, -1>>
    /\ puts[1] # <<>>
    /\ puts[1][1].sug.range = <<5, 0, 6, -1>>

\* C32: the order of the tests on one chunk.  When the decoder receives a
\* chunk that carries the done-edit marker together with a text fragment
\* or with the done-stream marker, it returns the suggestion of the edit
\* unit, the chunk's own text included, and not EndOfStream.
EndsUnitWithMore(r) ==
    /\ pos'[r] = pos[r] + 1
    /\ stream[r][pos'[r]].doneEdit
    /\ (stream[r][pos'[r]].text # <<>> \/ stream[r][pos'[r]].doneStream)

C32_ChunkFieldOrder ==
    [][\A r \in Reqs :
         LET us == Units(stream[r]) IN
         /\ (HParse(r) /\ EndsUnitWithMore(r))
               => /\ hout'[r] = [kind |-> "suggestion", via |-> "doneEdit"]
                  /\ firstSuggestion'[r] # <<>>
                  /\ firstSuggestion'[r][1].text = ExpectedText(us[1])
         /\ (BParse(r) /\ EndsUnitWithMore(r))
               => /\ bout'[r] = [kind |-> "suggestion", via |-> "doneEdit"]
                  /\ suggestion'[r] # <<>>
                  /\ suggestion'[r][1].text =
                        ExpectedText(UnitBody(stream[r], Len(puts[r]) + 2))]_vars

\* C33: the chunk the peek consumes is not part of any suggestion.  A peek
\* that receives a chunk leaves the suggestion just decoded as it is, and
\* that suggestion is what the response carries or what is stored; a
\* suggestion completed later is made of the chunks after the peeked one
\* only.  When the peeked chunk is neither a begin-marker nor a done-stream
\* marker the chain ends: no nextSuggestionID is given and the stream is
\* not read again.
Peeked(r) == pos'[r] = pos[r] + 1
PeekedOther(r) == Peeked(r) /\ ~stream[r][pos'[r]].begin /\ ~stream[r][pos'[r]].doneStream
SameButNext(a, b) == [a EXCEPT !.next = NoId] = [b EXCEPT !.next = NoId]

C33_PeekedChunkDropped ==
    /\ [][\A r \in Reqs :
            /\ (HPeek(r) /\ Peeked(r))
                  => /\ firstSuggestion'[r] = firstSuggestion[r]
                     /\ bcur'[r] = <<>>
            /\ (HPeek(r) /\ PeekedOther(r))
                  => /\ ~hasMoreSuggestions'[r]
                     /\ bpc'[r] = "none"
            /\ HRespond(r)
                  => /\ response'[r][1].suggestion = firstSuggestion[r][1].text
                     /\ response'[r][1].range = firstSuggestion[r][1].range
                     /\ response'[r][1].binding = firstSuggestion[r][1].binding
                     /\ response'[r][1].eol = firstSuggestion[r][1].eol
                     /\ bpc[r] = "none" => response'[r][1].next = NoId
            /\ (BPeek(r) /\ Peeked(r)) => suggestion'[r] = suggestion[r]
            /\ (BPeek(r) /\ PeekedOther(r)) => bnext'[r] = NoId
            /\ BStore(r)
                  => /\ SameButNext(puts'[r][Len(puts'[r])].sug, suggestion[r][1])
                     /\ bnext[r] = NoId => bpc'[r] = "done"
            /\ ((hpc[r] \in {"respond", "done"} /\ bpc[r] \in {"none", "done"})
                  => pos'[r] = pos[r])]_vars
    /\ [](\A r \in Reqs : \A i \in DOMAIN puts[r] :
              puts[r][i].via = "doneEdit"
                 => LET u == UnitBody(stream[r], i + 1) IN
                    /\ puts[r][i].sug.text = ExpectedText(u)
                    /\ puts[r][i].sug.range = ExpectedRange(u))

\* The task stored the suggestion that follows a begin-marker loaded with
\* text and a range, and the stored text and range are the unit's own.
C33_Witness ==
    /\ stream[1] = <<Text(<<"a">>), DoneEdit, LoadedBegin, Text(<<NL, "b">>), DoneEdit,
                     LoadedBegin, Text(<<"c">>), DoneEdit, DoneStream>>
    /\ Len(puts[1]) = 2
    /\ puts[1][1].sug.text = <<NL, "b">>
    /\ puts[1][1].sug.range = <<>>
    /\ puts[1][2].sug.text = <<"c">>

\* C34 as claimed: whenever the task inserts a suggestion it has received
\* the chunk that follows the suggestion's done-edit marker, the entry
\* carries the nextSuggestionID the peek decided, and a stored entry is
\* never written again.
StoredOnce(r) ==
    /\ \A i, j \in DOMAIN puts[r] : puts[r][i].id = puts[r][j].id => i = j
    /\ EntriesIntact(r)

C34_StoredAfterNextChunkReceived ==
    /\ [][\A r \in Reqs :
            BStore(r) => /\ pos[r] >= 2
                         /\ stream[r][pos[r] - 1].doneEdit
                         /\ puts'[r][Len(puts'[r])].sug.next = bnext[r]]_vars
    /\ [](\A r \in Reqs : StoredOnce(r))

\* C34 as the code has it: the task inserts a suggestion only after its
\* peek has returned, whether the peek received a chunk or found the
\* stream closed, failed or cancelled; a chunk the peek received is the one
\* that follows the suggestion's done-edit marker.  The entry is written
\* with the nextSuggestionID the peek decided (empty when no chunk came)
\* and is never written again: it stays as stored until a fetch takes it.
C34_StoredAfterPeekReturned ==
    /\ [][\A r \in Reqs :
            /\ (bpc[r] # "store" /\ bpc'[r] = "store") => (bpc[r] = "peek" /\ BPeek(r))
            /\ (bpc[r] = "parse" /\ bpc'[r] \notin {"parse", "done"}) => bpc'[r] = "peek"
            /\ (BPeek(r) /\ Peeked(r) /\ bout[r].via = "doneEdit")
                  => stream[r][pos[r]].doneEdit
            /\ (BPeek(r) /\ ~Peeked(r)) => bnext'[r] = NoId
            /\ BStore(r) => /\ bpc[r] = "store"
                             /\ puts'[r][Len(puts'[r])].sug.next = bnext[r]
                             /\ puts'[r][Len(puts'[r])].id \notin StoreKeys(store)]_vars
    /\ [](\A r \in Reqs : StoredOnce(r))

\* The task stored a suggestion whose peek received no chunk: the stream had
\* closed right after the done-edit marker.
C34_Witness ==
    /\ puts[1] # <<>>
    /\ puts[1][Len(puts[1])].via = "doneEdit"
    /\ bpc[1] = "done"
    /\ sstate[1] # "open"
    /\ stream[1][pos[1]].doneEdit
    /\ ~cancelled[1] \/ hpc[1] = "done"

\* C35: the editor's accepting flag is eventually reset.  Whenever an
\* acceptance has set M.accepting, a later state has it false again,
\* whatever the outcome of the chained fetch.
C35_AcceptingEventuallyReset == M.accepting ~> ~M.accepting

\* C36: a stale response is discarded.  When the job of a new-suggestion
\* request ends and the cursor's line or column differs from the one
\* captured when the debounce timer fired, the displayed suggestion, its
\* text and its next identifier are left as they were; so a response
\* changes them only with the cursor where it was captured.
SuggestionState(m) ==
    <<m.current_suggestion, m.current_suggestion_text, m.next_suggestion_id>>

C36_StaleResponseDiscarded ==
    [][\A j \in jobs :
         (JobEnds(j) /\ j.kind = "new" /\ j.at # cursor)
            => SuggestionState(M') = SuggestionState(M)]_vars

\* A new request is pending whose captured column is the cursor's column
\* but whose captured line is not the cursor's line, while a suggestion is
\* on display.
C36_Witness ==
    /\ M.current_suggestion
    /\ \E j \in jobs :
          /\ j.kind = "new" /\ ~j.stopped
          /\ j.at[1] # cursor[1]
          /\ j.at[2] = cursor[2]

\* C37: request exclusivity in the editor.  At any time at most one
\* request job is running (started and not stopped) and at most one
\* debounce timer is armed (M.debounce_timer is the one handle); a step
\* that starts a job leaves every other job stopped, and a TextChangedI
\* event starts no job itself: only the timer it armed last does.
Running == {j \in jobs : ~j.stopped}

C37_OneRequestAtATime ==
    /\ [](Cardinality(Running) <= 1)
    /\ [][(Cardinality(jobs') > Cardinality(jobs))
            => Cardinality({j \in jobs' : ~j.stopped}) = 1]_vars
    /\ [][TextChangedI => jobs' = jobs]_vars

\* The chained fetches a step starts.
NewGets == {j \in jobs' : j \notin jobs /\ j.kind = "get"}

\* C38: the editor follows the chain only by acceptance.  The text and the
\* next_suggestion_id the plugin holds always come from the same payload;
\* accept_suggestion takes both, and the fetch that follows is the only way
\* a chained fetch starts: one job, for the identifier the acceptance took,
\* after which nothing is left scheduled.  An acceptance without an
\* identifier fetches nothing.  A step that clears a suggestion without
\* accepting it (typing, leaving insert mode, disabling or toggling) starts
\* no fetch and schedules none.
C38_ChainFollowedOnlyByAcceptance ==
    /\ [](M.current_suggestion_text # <<>>
            => M.current_suggestion_text = SuggestionText(M.next_suggestion_id))
    /\ [][(Tab /\ CanAccept(M))
            => scheduled' = <<[what |-> "insert", text |-> M.current_suggestion_text,
                               next |-> M.next_suggestion_id]>>]_vars
    /\ [][(scheduled' # scheduled /\ scheduled' # <<>>)
            => \/ Tab /\ CanAccept(M) /\ scheduled = <<>>
               \/ /\ RunInsert
                  /\ scheduled[1].next # NoId
                  /\ scheduled' = <<[what |-> "show", next |-> scheduled[1].next]>>]_vars
    /\ [][NewGets # {}
            => /\ RunShow
               /\ Cardinality(NewGets) = 1
               /\ \A j \in NewGets : j.id = scheduled[1].next /\ j.id # NoId
               /\ scheduled' = <<>>]_vars
    /\ [][(TextChangedI \/ InsertLeave \/ \E arg \in {"toggle", "enable", "disable"} : CursorTab(arg))
            => /\ jobs' \subseteq jobs
               /\ scheduled' = scheduled]_vars

\* The suggestion that arrived with identifier 1 was accepted and put in
\* the buffer, and the chained fetch for identifier 1 is under way.
C38_Witness ==
    /\ buffer = <<"k", "s1">>
    /\ jobs = {j \in jobs : j.kind = "get" /\ j.id = 1 /\ ~j.stopped}
    /\ jobs # {}
    /\ M.accepting
    /\ scheduled = <<>>

\* What the calls made so far leave under id: the value of the last Store
\* of id if no Delete of id followed it, else nothing.
RECURSIVE LastStored(_, _)
LastStored(log, id) ==
    IF log = <<>> THEN <<>>
    ELSE IF log[Len(log)].id = id THEN log[Len(log)].val
         ELSE LastStored(SubSeq(log, 1, Len(log) - 1), id)

Present(log) == {id \in StoreIds : LastStored(log, id) # <<>>}

\* C39: the store's operations.  Get(id) returns the value last stored
\* under id, or nothing when none was stored or it was deleted since, and
\* changes nothing.  Store(id, s) puts s under id in place of any previous
\* value and changes no other key.  Delete(id) removes id and no other key,
\* and changes nothing when id is absent.  Keys() returns exactly the
\* identifiers present and changes nothing.
C39_StoreOperations ==
    /\ [][\A id \in StoreIds :
            CallGet(id) => /\ ret'[1].val = LastStored(calls, id)
                           /\ store' = store]_vars
    /\ [][\A id \in StoreIds : \A s \in StoreValues :
            CallStore(id, s)
               => /\ StoreGet(store', id) = <<s>>
                  /\ StoreKeys(store') = StoreKeys(store) \cup {id}
                  /\ \A k \in StoreKeys(store') \ {id} : store'[k] = store[k]]_vars
    /\ [][\A id \in StoreIds :
            CallDelete(id)
               => /\ StoreKeys(store') = StoreKeys(store) \ {id}
                  /\ \A k \in StoreKeys(store') : store'[k] = store[k]
                  /\ id \notin StoreKeys(store) => store' = store]_vars
    /\ [][CallKeys => /\ ret'[1].val = Present(calls)
                       /\ store' = store]_vars

\* A value was stored over another under identifier 1 with identifier 2
\* absent, the absent identifier was deleted, and Keys was then called.
C39_Witness ==
    /\ Len(calls) = MaxCalls
    /\ \E i \in 1..(Len(calls) - 1) :
          /\ calls[i].op = "Store" /\ calls[i + 1].op = "Store"
          /\ calls[i].id = calls[i + 1].id
          /\ calls[i].val # calls[i + 1].val
    /\ calls[Len(calls)].op = "Delete"
    /\ calls[Len(calls)].id \notin Present(SubSeq(calls, 1, Len(calls) - 1))
    /\ ret # <<>> /\ ret[1].op = "Keys" /\ ret[1].val = {1}
====
